---- MODULE Spec2Model ----
(***************************************************************************)
(* Model of analyze-vault.py: the naked-URL classifier, the two tree       *)
(* scans, the file relocator (move_files) and the orchestrator (main).     *)
(*                                                                         *)
(* Text is a sequence of one-character strings.  A path is a sequence of   *)
(* components, each component a sequence of characters.  The filesystem    *)
(* holds regular files and directories; rename follows rename(2).          *)
(***************************************************************************)
EXTENDS Integers, Sequences, FiniteSets, TLC

VARIABLES
    pc,             \* control position of the running operation
    content,        \* is_naked_url: the text being classified
    result,         \* is_naked_url: the returned value ("unset" before the call)
    fs,             \* the filesystem: path -> entry
    args,           \* main: the parsed command line
    todo,           \* scans: candidates of rglob not yet visited
    naked_urls,     \* find_naked_urls: the list being accumulated
    matching_files, \* find_files_with_string: the list being accumulated
    files,          \* main: the working set / move_files: the batch
    printed,        \* main: the paths printed under "Matching files:"
    exit_status,    \* main: status of the process ("running" before it ends)
    error,          \* the exception that ended the operation ("none" if none)
    target_dir,     \* move_files: the target directory argument
    i,              \* move_files: index of the file being processed
    successful,     \* move_files: list of moved source paths
    failed,         \* move_files: list of failed source paths
    fs0,            \* the filesystem when the operation started
    missing,        \* move_files: files that failed because the source was absent
    clobbered,      \* move_files: files whose rename replaced an existing entry
    ext             \* entries created by the external process, with the step they were created at

vars == <<pc, content, result, fs, args, todo, naked_urls, matching_files, files,
          printed, exit_status, error, target_dir, i, successful, failed, fs0,
          missing, clobbered, ext>>

(***************************************************************************)
(* Bounds                                                                  *)
(***************************************************************************)
MaxPieces == 6      \* pieces a classified text is assembled from
MaxBatch == 3       \* files in one move_files batch
MaxExt == 1         \* entries the external process creates during one batch

(***************************************************************************)
(* Text                                                                    *)
(***************************************************************************)
NL == "\n"

\* characters str.strip() removes and \S rejects
Whitespace == {" ", "\t", "\r", "\n"}

RECURSIVE IndexOf(_, _, _)
\* first position >= k of character c in s, 0 if there is none
IndexOf(s, c, k) ==
    IF k > Len(s) THEN 0
    ELSE IF s[k] = c THEN k
    ELSE IndexOf(s, c, k + 1)

RECURSIVE split(_, _)
\* str.split(sep) for a one-character separator
split(s, sep) ==
    LET k == IndexOf(s, sep, 1)
    IN  IF k = 0 THEN <<s>>
        ELSE <<SubSeq(s, 1, k - 1)>> \o split(SubSeq(s, k + 1, Len(s)), sep)

RECURSIVE lstrip(_)
lstrip(s) ==
    IF s # <<>> /\ Head(s) \in Whitespace THEN lstrip(Tail(s)) ELSE s

RECURSIVE rstrip(_)
rstrip(s) ==
    IF s # <<>> /\ s[Len(s)] \in Whitespace THEN rstrip(SubSeq(s, 1, Len(s) - 1)) ELSE s

\* str.strip()
strip(s) == rstrip(lstrip(s))

\* s[k..] starts with the literal lit
StartsAt(s, k, lit) ==
    /\ k + Len(lit) - 1 <= Len(s)
    /\ SubSeq(s, k, k + Len(lit) - 1) = lit

\* re.match(r'^https?://\S+$', line): "http", an optional "s", "://", a
\* non-empty run of non-whitespace, then the end (or a final newline)
re_match_url(line) ==
    /\ StartsAt(line, 1, <<"h", "t", "t", "p">>)
    /\ \E k \in {5, 6} :
        /\ (k = 6) => StartsAt(line, 5, <<"s">>)
        /\ StartsAt(line, k, <<":", "/", "/">>)
        /\ \E e \in (k + 3)..Len(line) :
            /\ \A j \in (k + 3)..e : line[j] \notin Whitespace
            /\ \/ e = Len(line)
               \/ e = Len(line) - 1 /\ line[Len(line)] = NL

\* the list comprehension of is_naked_url
NonEmptyLines(text) ==
    LET raw == split(text, NL)
        stripped == [k \in 1..Len(raw) |-> strip(raw[k])]
    IN  SelectSeq(stripped, LAMBDA l : l # <<>>)

\* mutant: the line count is not checked, only the first line is matched
is_naked_url_first_line(text) ==
    LET lines == NonEmptyLines(text)
    IN  IF Len(lines) = 0 THEN FALSE ELSE re_match_url(lines[1])

is_naked_url(text) ==
    LET lines == NonEmptyLines(text)
    IN  IF Len(lines) # 1 THEN FALSE ELSE re_match_url(lines[1])

\* search_string in content
Contains(text, search_string) ==
    \E k \in 1..(Len(text) + 1) : StartsAt(text, k, search_string)

(***************************************************************************)
(* Paths and the filesystem                                                *)
(***************************************************************************)
VAULT == <<"v", "a", "u", "l", "t">>
SUB == <<"s", "u", "b">>
INBOX == <<"i", "n", "b", "o", "x">>
OUT == <<"o", "u", "t">>
NOPE == <<"n", "o", "p", "e">>
A_MD == <<"a", ".", "m", "d">>
B_MD == <<"b", ".", "m", "d">>
C_TXT == <<"c", ".", "t", "x", "t">>

None == "None"

\* every path the model's filesystem can hold an entry at
AllPaths ==
    { <<VAULT>>, <<VAULT, A_MD>>, <<VAULT, B_MD>>, <<VAULT, C_TXT>>,
      <<VAULT, SUB>>, <<VAULT, SUB, A_MD>>,
      <<INBOX>>, <<INBOX, A_MD>>, <<INBOX, B_MD>>,
      <<OUT>>, <<OUT, INBOX>>, <<OUT, INBOX, A_MD>>, <<OUT, INBOX, B_MD>> }

Absent == [kind |-> "none", readable |-> FALSE, utf8 |-> FALSE, data |-> <<>>]
Dir(r) == [kind |-> "dir", readable |-> r, utf8 |-> FALSE, data |-> <<>>]
File(d, r, u) == [kind |-> "file", readable |-> r, utf8 |-> u, data |-> d]

Entry(f, p) == IF p \in DOMAIN f THEN f[p] ELSE Absent

\* Path.name, Path.parent, target_path / name
name(p) == p[Len(p)]
parent(p) == SubSeq(p, 1, Len(p) - 1)
join(p, n) == Append(p, n)

\* Path.exists(), Path.is_dir(), os.access(path, os.R_OK)
exists(f, p) == Entry(f, p).kind # "none"
is_dir(f, p) == Entry(f, p).kind = "dir"
access_R_OK(f, p) == exists(f, p) /\ Entry(f, p).readable

\* validate_directory: "ok" or the reason it raises VaultAnalysisError for
validate_directory(f, directory) ==
    IF ~exists(f, directory) THEN "does not exist"
    ELSE IF ~is_dir(f, directory) THEN "not a directory"
    ELSE IF ~access_R_OK(f, directory) THEN "not readable"
    ELSE "ok"

\* fnmatch of a name against '*.md'
matches_md(n) == Len(n) >= 3 /\ SubSeq(n, Len(n) - 2, Len(n)) = <<".", "m", "d">>

IsPrefix(a, b) == Len(a) <= Len(b) /\ SubSeq(b, 1, Len(a)) = a

\* path.rglob('*.md'): every entry below path, at any depth, whose name matches
rglob_md(f, path) ==
    { p \in DOMAIN f : /\ Len(p) > Len(path)
                       /\ IsPrefix(path, p)
                       /\ exists(f, p)
                       /\ matches_md(name(p)) }

\* file_path.read_text(encoding='utf-8'): the text, or the exception it raises
read_text(f, p) ==
    IF Entry(f, p).kind = "dir" THEN [ok |-> FALSE, text |-> <<>>, exc |-> "IsADirectoryError"]
    ELSE IF Entry(f, p).kind = "none" THEN [ok |-> FALSE, text |-> <<>>, exc |-> "FileNotFoundError"]
    ELSE IF ~Entry(f, p).utf8 THEN [ok |-> FALSE, text |-> <<>>, exc |-> "UnicodeDecodeError"]
    ELSE [ok |-> TRUE, text |-> Entry(f, p).data, exc |-> "none"]

\* one pass of the scan loop body over file_path: "match" when the path is
\* appended, "nomatch" when it is not, "skip" when the file is passed over
\* with a warning (unreadable, or the read raised)
scan_file_naked(f, file_path) ==
    IF ~access_R_OK(f, file_path) THEN "skip"
    ELSE IF ~read_text(f, file_path).ok THEN "skip"
    ELSE IF is_naked_url(read_text(f, file_path).text) THEN "match"
    ELSE "nomatch"

scan_file_string(f, file_path, search_string) ==
    IF ~access_R_OK(f, file_path) THEN "skip"
    ELSE IF ~read_text(f, file_path).ok THEN "skip"
    ELSE IF Contains(read_text(f, file_path).text, search_string) THEN "match"
    ELSE "nomatch"

\* mutant: a skipped file ends the iteration
rest_after_abort(cands, file_path, outcome) ==
    IF outcome = "skip" THEN {} ELSE cands \ {file_path}

\* the candidates left once file_path has been handled: the except clause is
\* inside the for loop, so a skipped file does not end the iteration
rest_after(cands, file_path, outcome) == cands \ {file_path}

Range(s) == { s[k] : k \in 1..Len(s) }

NoDuplicates(s) == \A a, b \in 1..Len(s) : a # b => s[a] # s[b]

\* the orders a Python set can be listed in
Orderings(S) ==
    { s \in [1..Cardinality(S) -> S] : \A a, b \in 1..Cardinality(S) : a # b => s[a] # s[b] }

\* mutant: the filter result is ignored
intersection_unfiltered(a, b) == Range(a)

\* set(files) & set(filtered_files)
intersection(a, b) == Range(a) \cap Range(b)

(***************************************************************************)
(* Specification Classify: is_naked_url applied to assembled texts         *)
(***************************************************************************)
EmptyFs == [p \in AllPaths |-> Absent]

NoArgs == [find_naked_urls |-> None, filter |-> None, move |-> None]

\* the pieces texts are assembled from
Pieces ==
    { <<"h", "t", "t", "p">>, <<"s">>, <<":", "/", "/">>, <<"x">>, <<" ">>, <<"\t">>, <<NL>> }

InitClassify ==
    /\ pc = "compose"
    /\ content = <<>>
    /\ result = "unset"
    /\ fs = EmptyFs
    /\ args = NoArgs
    /\ todo = {}
    /\ naked_urls = <<>>
    /\ matching_files = <<>>
    /\ files = <<>>
    /\ printed = <<>>
    /\ exit_status = "running"
    /\ error = "none"
    /\ target_dir = None
    /\ i = 0
    /\ successful = <<>>
    /\ failed = <<>>
    /\ fs0 = EmptyFs
    /\ missing = {}
    /\ clobbered = {}
    /\ ext = {}

\* the caller extends the text by one piece (i counts the pieces)
Compose ==
    /\ pc = "compose"
    /\ i < MaxPieces
    /\ \E piece \in Pieces : content' = content \o piece
    /\ i' = i + 1
    /\ UNCHANGED <<pc, result, fs, args, todo, naked_urls, matching_files, files,
                   printed, exit_status, error, target_dir, successful, failed,
                   fs0, missing, clobbered, ext>>

\* is_naked_url(content) is called and returns
Classify ==
    /\ pc = "compose"
    /\ result' = is_naked_url(content)
    /\ pc' = "classified"
    /\ UNCHANGED <<content, fs, args, todo, naked_urls, matching_files, files,
                   printed, exit_status, error, target_dir, i, successful, failed,
                   fs0, missing, clobbered, ext>>

NextClassify == Compose \/ Classify

SpecClassify == InitClassify /\ [][NextClassify]_vars

\* exactly one run of non-whitespace in the text, and that run is
\* http:// or https:// followed by at least one more character
SingleUrlLine(text) ==
    \E a, b \in 1..Len(text) :
        /\ a <= b
        /\ \A k \in 1..(a - 1) : text[k] \in Whitespace
        /\ \A k \in (b + 1)..Len(text) : text[k] \in Whitespace
        /\ \A k \in a..b : text[k] \notin Whitespace
        /\ \/ StartsAt(text, a, <<"h", "t", "t", "p", ":", "/", "/">>) /\ b - a + 1 > 7
           \/ StartsAt(text, a, <<"h", "t", "t", "p", "s", ":", "/", "/">>) /\ b - a + 1 > 8

\* C7: is_naked_url returns true exactly when the text, blank lines and
\* surrounding whitespace aside, is one line that is http:// or https://
\* followed by one or more non-whitespace characters
C7_NakedUrlIff ==
    pc = "classified" => (result = SingleUrlLine(content))

\* a URL line with a blank line before and after it classifies as naked
C7_Witness ==
    /\ pc = "classified"
    /\ result = TRUE
    /\ Len(content) > 2
    /\ content[1] = NL
    /\ content[Len(content)] = NL

(***************************************************************************)
(* Specification Main: one run of main over a vault                        *)
(***************************************************************************)
\* file contents of the vault's notes
URL_HTTP == <<"h", "t", "t", "p", ":", "/", "/", "x">>
URL_HTTPS == <<" ", "h", "t", "t", "p", "s", ":", "/", "/", "x", NL, NL>>
TWO_LINES == <<"h", "t", "t", "p", ":", "/", "/", "x", NL, "s">>

\* what a note slot of the vault can hold: nothing, an unreadable file, a file
\* that is not UTF-8, a directory, or a readable text file
NoteStates ==
    { Absent, File(URL_HTTP, FALSE, TRUE), File(URL_HTTP, TRUE, FALSE), Dir(TRUE),
      File(URL_HTTP, TRUE, TRUE), File(URL_HTTPS, TRUE, TRUE), File(TWO_LINES, TRUE, TRUE) }

Vaults ==
    { [p \in AllPaths |->
        CASE p = <<VAULT>> -> Dir(r)
          [] p = <<VAULT, SUB>> -> Dir(TRUE)
          [] p = <<VAULT, C_TXT>> -> File(URL_HTTP, TRUE, TRUE)
          [] p = <<VAULT, A_MD>> -> a
          [] p = <<VAULT, SUB, A_MD>> -> sa
          [] p = <<VAULT, B_MD>> -> b
          [] p = <<INBOX>> -> box
          [] OTHER -> Absent] :
      r \in BOOLEAN, a \in NoteStates, sa \in NoteStates,
      b \in NoteStates,
      box \in {Absent, File(<<>>, TRUE, TRUE)} }

\* argparse results: None when the option is not given
CommandLines ==
    [ find_naked_urls : {None, <<VAULT>>, <<NOPE>>, <<VAULT, C_TXT>>},
      filter : {None, <<>>, <<"s">>, <<"X">>},
      move : {None, <<INBOX>>} ]

\* Python truth value of an optional string argument
truthy(a) == a # None /\ a # <<>>

\* names bound in main's frame, and at module level, when line 135 runs
MainLocals == {"parser", "args", "files", "filtered_files", "file"}
ModuleGlobals ==
    { "argparse", "os", "re", "sys", "Path", "List", "Set", "Optional", "Tuple",
      "VaultAnalysisError", "validate_directory", "is_naked_url", "find_naked_urls",
      "find_files_with_string", "move_files", "main" }

InitMain ==
    /\ pc = "main"
    /\ content = <<>>
    /\ result = "unset"
    /\ fs \in Vaults
    /\ args \in CommandLines
    /\ todo = {}
    /\ naked_urls = <<>>
    /\ matching_files = <<>>
    /\ files = <<>>
    /\ printed = <<>>
    /\ exit_status = "running"
    /\ error = "none"
    /\ target_dir = None
    /\ i = 0
    /\ successful = <<>>
    /\ failed = <<>>
    /\ fs0 = fs
    /\ missing = {}
    /\ clobbered = {}
    /\ ext = {}

\* line 122: no scan directory, nothing runs and the process ends normally
MainNoScan ==
    /\ pc = "main"
    /\ ~truthy(args.find_naked_urls)
    /\ pc' = "done"
    /\ exit_status' = 0
    /\ UNCHANGED <<content, result, fs, args, todo, naked_urls, matching_files, files,
                   printed, error, target_dir, i, successful, failed, fs0, missing,
                   clobbered, ext>>

\* lines 124, 38-42: find_naked_urls validates the directory; a failure is
\* re-raised (line 56), caught in main (line 146) and ends the run with 1
FindNakedUrlsEnter ==
    /\ pc = "main"
    /\ truthy(args.find_naked_urls)
    /\ IF validate_directory(fs, args.find_naked_urls) = "ok"
       THEN /\ todo' = rglob_md(fs, args.find_naked_urls)
            /\ pc' = "find_naked_urls"
            /\ UNCHANGED <<error, exit_status>>
       ELSE /\ error' = "VaultAnalysisError"
            /\ exit_status' = 1
            /\ pc' = "done"
            /\ todo' = todo
    /\ naked_urls' = <<>>
    /\ UNCHANGED <<content, result, fs, args, matching_files, files, printed,
                   target_dir, i, successful, failed, fs0, missing, clobbered, ext>>

\* lines 42-52: the loop body for one candidate, in the order rglob yields them
FindNakedUrlsStep ==
    /\ pc = "find_naked_urls"
    /\ \E file_path \in todo :
        LET outcome == scan_file_naked(fs, file_path)
        IN  /\ naked_urls' = IF outcome = "match" THEN Append(naked_urls, file_path)
                             ELSE naked_urls
            /\ todo' = rest_after(todo, file_path, outcome)
    /\ UNCHANGED <<pc, content, result, fs, args, matching_files, files, printed,
                   exit_status, error, target_dir, i, successful, failed, fs0, missing,
                   clobbered, ext>>

\* lines 54, 124-126, 60-64: find_naked_urls returns into files; with a filter
\* find_files_with_string starts over the same directory
FindNakedUrlsReturn ==
    /\ pc = "find_naked_urls"
    /\ todo = {}
    /\ files' = naked_urls
    /\ IF truthy(args.filter)
       THEN IF validate_directory(fs, args.find_naked_urls) = "ok"
            THEN /\ todo' = rglob_md(fs, args.find_naked_urls)
                 /\ pc' = "find_files_with_string"
                 /\ UNCHANGED <<error, exit_status>>
            ELSE /\ error' = "VaultAnalysisError"
                 /\ exit_status' = 1
                 /\ pc' = "done"
                 /\ todo' = todo
       ELSE /\ pc' = "report"
            /\ UNCHANGED <<todo, error, exit_status>>
    /\ matching_files' = <<>>
    /\ UNCHANGED <<content, result, fs, args, naked_urls, printed, target_dir, i,
                   successful, failed, fs0, missing, clobbered, ext>>

\* lines 64-74
FindFilesWithStringStep ==
    /\ pc = "find_files_with_string"
    /\ \E file_path \in todo :
        LET outcome == scan_file_string(fs, file_path, args.filter)
        IN  /\ matching_files' = IF outcome = "match" THEN Append(matching_files, file_path)
                                 ELSE matching_files
            /\ todo' = rest_after(todo, file_path, outcome)
    /\ UNCHANGED <<pc, content, result, fs, args, naked_urls, files, printed,
                   exit_status, error, target_dir, i, successful, failed, fs0, missing,
                   clobbered, ext>>

\* lines 76, 126-127: files = list(set(files) & set(filtered_files))
FindFilesWithStringReturn ==
    /\ pc = "find_files_with_string"
    /\ todo = {}
    /\ files' \in Orderings(intersection(files, matching_files))
    /\ pc' = "report"
    /\ UNCHANGED <<content, result, fs, args, todo, naked_urls, matching_files, printed,
                   exit_status, error, target_dir, i, successful, failed, fs0, missing,
                   clobbered, ext>>

\* lines 129-134: the working set is printed; without --move the run ends
MainPrint ==
    /\ pc = "report"
    /\ files # <<>>
    /\ printed' = files
    /\ IF truthy(args.move)
       THEN pc' = "move" /\ exit_status' = exit_status
       ELSE pc' = "done" /\ exit_status' = 0
    /\ UNCHANGED <<content, result, fs, args, todo, naked_urls, matching_files, files,
                   error, target_dir, i, successful, failed, fs0, missing, clobbered, ext>>

\* lines 144-145
MainNoMatches ==
    /\ pc = "report"
    /\ files = <<>>
    /\ pc' = "done"
    /\ exit_status' = 0
    /\ UNCHANGED <<content, result, fs, args, todo, naked_urls, matching_files, files,
                   printed, error, target_dir, i, successful, failed, fs0, missing,
                   clobbered, ext>>

\* line 135: the argument naked_urls is bound neither in main nor in the
\* module, so evaluating it raises NameError before move_files is entered;
\* NameError is no VaultAnalysisError, line 150 catches it and exits with 1
MainMove ==
    /\ pc = "move"
    /\ "naked_urls" \notin MainLocals \cup ModuleGlobals
    /\ error' = "NameError"
    /\ exit_status' = 1
    /\ pc' = "done"
    /\ UNCHANGED <<content, result, fs, args, todo, naked_urls, matching_files, files,
                   printed, target_dir, i, successful, failed, fs0, missing, clobbered, ext>>

NextMain ==
    \/ MainNoScan
    \/ FindNakedUrlsEnter
    \/ FindNakedUrlsStep
    \/ FindNakedUrlsReturn
    \/ FindFilesWithStringStep
    \/ FindFilesWithStringReturn
    \/ MainPrint
    \/ MainNoMatches
    \/ MainMove

SpecMain == InitMain /\ [][NextMain]_vars

(***************************************************************************)
(* move_files                                                              *)
(***************************************************************************)
\* the path and its ancestors
Prefixes(t) == { SubSeq(t, 1, k) : k \in 1..Len(t) }

\* mutant: mkdir without parents=True fails when the parent is absent
mkdir_no_parents(f, t) ==
    IF is_dir(f, t) THEN [ok |-> TRUE, fs |-> f]
    ELSE IF exists(f, t) \/ (Len(t) > 1 /\ ~is_dir(f, parent(t))) THEN [ok |-> FALSE, fs |-> f]
    ELSE [ok |-> TRUE, fs |-> [f EXCEPT ![t] = Dir(TRUE)]]

\* target_path.mkdir(parents=True, exist_ok=True): an existing directory is
\* left alone, absent ancestors are created, an entry on the way that is not
\* a directory raises
mkdir(f, t) ==
    IF \E q \in Prefixes(t) : exists(f, q) /\ ~is_dir(f, q)
    THEN [ok |-> FALSE, fs |-> f]
    ELSE [ok |-> TRUE,
          fs |-> [p \in DOMAIN f |-> IF p \in Prefixes(t) /\ ~exists(f, p) THEN Dir(TRUE)
                                     ELSE f[p]]]

\* the condition of line 85
target_invalid(f, t) == exists(f, t) /\ ~is_dir(f, t)

\* dest = target_path / src.name
dest_of(t, file) == join(t, name(file))

\* mutant: the destination check is dropped
dest_exists_never(f, t, file) == FALSE

\* mutant: the destination check looks for a directory only
dest_exists_is_dir(f, t, file) == is_dir(f, dest_of(t, file))

\* dest.exists()
dest_exists(f, t, file) == exists(f, dest_of(t, file))

\* src.rename(dest) on a regular file, as rename(2): a file at dest is
\* replaced, a directory at dest or a missing parent raises
rename(f, src, dest) ==
    IF ~exists(f, src) \/ ~is_dir(f, parent(dest)) \/ is_dir(f, dest)
    THEN [ok |-> FALSE, replaced |-> FALSE, fs |-> f]
    ELSE IF src = dest
    THEN [ok |-> TRUE, replaced |-> FALSE, fs |-> f]
    ELSE [ok |-> TRUE, replaced |-> exists(f, dest),
          fs |-> [f EXCEPT ![dest] = f[src], ![src] = Absent]]

\* mutant: the try encloses the loop, the first failure ends the batch
after_failure_abort(k, n) == n + 1

\* the index processed after a failed file: the except clause of lines
\* 105-107 is inside the loop, the next file follows
after_failure(k, n) == k + 1

\* lines 94-107 for one file, run without interruption
move_one(st, t, file) ==
    IF ~exists(st.fs, file) \/ dest_exists(st.fs, t, file)
    THEN [fs |-> st.fs, successful |-> st.successful, failed |-> Append(st.failed, file)]
    ELSE LET r == rename(st.fs, file, dest_of(t, file))
         IN  IF r.ok
             THEN [fs |-> r.fs, successful |-> Append(st.successful, file), failed |-> st.failed]
             ELSE [fs |-> st.fs, successful |-> st.successful, failed |-> Append(st.failed, file)]

RECURSIVE move_each(_, _, _)
\* lines 93-107 over a whole batch
move_each(st, t, batch) ==
    IF batch = <<>> THEN st
    ELSE move_each(move_one(st, t, Head(batch)), t, Tail(batch))

\* move_files(batch, t) started on filesystem f and run to its return
move_files(f, batch, t) ==
    IF target_invalid(f, t) \/ ~mkdir(f, t).ok
    THEN [raised |-> TRUE, fs |-> f, successful |-> <<>>, failed |-> <<>>]
    ELSE [raised |-> FALSE] @@
         move_each([fs |-> mkdir(f, t).fs, successful |-> <<>>, failed |-> <<>>], t, batch)

OLD_DATA == <<"o", "l", "d">>
EXT_DATA == <<"n", "e", "w">>

\* the filesystems a batch is moved on
MoveWorlds ==
    { [p \in AllPaths |->
        CASE p = <<VAULT>> -> Dir(TRUE)
          [] p = <<VAULT, SUB>> -> Dir(TRUE)
          [] p = <<VAULT, A_MD>> -> a
          [] p = <<VAULT, SUB, A_MD>> -> sa
          [] p = <<VAULT, B_MD>> -> b
          [] p = <<INBOX>> -> box
          [] p = <<INBOX, A_MD>> -> IF box = Dir(TRUE) THEN ia ELSE Absent
          [] p = <<OUT>> -> out
          [] OTHER -> Absent] :
      a \in {Absent, File(URL_HTTP, TRUE, TRUE)},
      sa \in {Absent, File(URL_HTTPS, TRUE, TRUE)},
      b \in {Absent, File(TWO_LINES, TRUE, TRUE)},
      box \in {Absent, Dir(TRUE), File(<<>>, TRUE, TRUE)},
      ia \in {Absent, File(OLD_DATA, TRUE, TRUE)},
      out \in {Absent, Dir(TRUE)} }

\* the paths a batch is made of: paths a scan returned, some deleted since
BatchPaths == { <<VAULT, A_MD>>, <<VAULT, B_MD>>, <<VAULT, SUB, A_MD>>, <<INBOX, A_MD>> }

\* the batches: lists of distinct paths, as the match sets hold no duplicates
Batches ==
    UNION { { s \in [1..n -> BatchPaths] : NoDuplicates(s) } : n \in 0..MaxBatch }

Targets == { <<INBOX>>, <<OUT, INBOX>>, <<VAULT>> }

InitMove ==
    /\ pc = "move_files"
    /\ content = <<>>
    /\ result = "unset"
    /\ fs \in MoveWorlds
    /\ args = NoArgs
    /\ todo = {}
    /\ naked_urls = <<>>
    /\ matching_files = <<>>
    /\ files \in Batches
    /\ printed = <<>>
    /\ exit_status = "running"
    /\ error = "none"
    /\ target_dir \in Targets
    /\ i = 0
    /\ successful = <<>>
    /\ failed = <<>>
    /\ fs0 = fs
    /\ missing = {}
    /\ clobbered = {}
    /\ ext = {}

\* mutant: the target is not validated and a failing mkdir is ignored
MoveFilesEnter_unchecked ==
    /\ pc = "move_files"
    /\ fs' = mkdir(fs, target_dir).fs
    /\ i' = 1
    /\ pc' = "loop"
    /\ successful' = <<>>
    /\ failed' = <<>>
    /\ UNCHANGED <<content, result, args, todo, naked_urls, matching_files, files,
                   printed, exit_status, error, target_dir, fs0, missing, clobbered, ext>>

\* lines 84-91, 110-111: the target is validated and created; any failure
\* here leaves the function as a VaultAnalysisError
MoveFilesEnter ==
    /\ pc = "move_files"
    /\ IF target_invalid(fs, target_dir) \/ ~mkdir(fs, target_dir).ok
       THEN /\ error' = "VaultAnalysisError"
            /\ pc' = "raised"
            /\ UNCHANGED <<fs, i>>
       ELSE /\ fs' = mkdir(fs, target_dir).fs
            /\ i' = 1
            /\ pc' = "loop"
            /\ error' = error
    /\ successful' = <<>>
    /\ failed' = <<>>
    /\ UNCHANGED <<content, result, args, todo, naked_urls, matching_files, files,
                   printed, exit_status, target_dir, fs0, missing, clobbered, ext>>

\* lines 93-101, 105-107: the two existence checks for files[i]
MoveFilesCheck ==
    /\ pc = "loop"
    /\ i <= Len(files)
    /\ IF ~exists(fs, files[i])
       THEN /\ failed' = Append(failed, files[i])
            /\ missing' = missing \cup {files[i]}
            /\ i' = after_failure(i, Len(files))
            /\ pc' = pc
       ELSE IF dest_exists(fs, target_dir, files[i])
       THEN /\ failed' = Append(failed, files[i])
            /\ i' = after_failure(i, Len(files))
            /\ UNCHANGED <<missing, pc>>
       ELSE /\ pc' = "rename"
            /\ UNCHANGED <<failed, missing, i>>
    /\ UNCHANGED <<content, result, fs, args, todo, naked_urls, matching_files, files,
                   printed, exit_status, error, target_dir, successful, fs0, clobbered, ext>>

\* lines 103-107: the rename of files[i] and its bookkeeping
MoveFilesRename ==
    /\ pc = "rename"
    /\ LET r == rename(fs, files[i], dest_of(target_dir, files[i]))
       IN  /\ fs' = r.fs
           /\ IF r.ok
              THEN /\ successful' = Append(successful, files[i])
                   /\ failed' = failed
                   /\ i' = i + 1
              ELSE /\ failed' = Append(failed, files[i])
                   /\ successful' = successful
                   /\ i' = after_failure(i, Len(files))
           /\ clobbered' = IF r.replaced THEN clobbered \cup {files[i]} ELSE clobbered
    /\ pc' = "loop"
    /\ UNCHANGED <<content, result, args, todo, naked_urls, matching_files, files,
                   printed, exit_status, error, target_dir, fs0, missing, ext>>

\* line 109
MoveFilesReturn ==
    /\ pc = "loop"
    /\ i > Len(files)
    /\ pc' = "returned"
    /\ UNCHANGED <<content, result, fs, args, todo, naked_urls, matching_files, files,
                   printed, exit_status, error, target_dir, i, successful, failed, fs0,
                   missing, clobbered, ext>>

NextMove ==
    \/ MoveFilesEnter
    \/ MoveFilesCheck
    \/ MoveFilesRename
    \/ MoveFilesReturn

SpecMove == InitMove /\ [][NextMove]_vars

\* another process creates an entry in the target directory while the batch
\* is being moved; it records the step of move_files it ran before
ExternalCreate ==
    /\ pc \in {"loop", "rename"}
    /\ Cardinality(ext) < MaxExt
    /\ \E n \in {A_MD, B_MD}, e \in {File(EXT_DATA, TRUE, TRUE), Dir(TRUE)} :
        LET p == join(target_dir, n)
        IN  /\ ~exists(fs, p)
            /\ fs' = [fs EXCEPT ![p] = e]
            /\ ext' = ext \cup {[path |-> p, at |-> pc, index |-> i]}
    /\ UNCHANGED <<pc, content, result, args, todo, naked_urls, matching_files, files,
                   printed, exit_status, error, target_dir, i, successful, failed, fs0,
                   missing, clobbered>>

NextRace ==
    \/ MoveFilesEnter
    \/ MoveFilesCheck
    \/ MoveFilesRename
    \/ MoveFilesReturn
    \/ ExternalCreate

SpecRace == InitMove /\ [][NextRace]_vars


(***************************************************************************)
(* Claims about main and the scans (specification Main)                    *)
(***************************************************************************)
\* text holds lit at some position, character by character
Occurs(text, lit) ==
    \E k \in 0..Len(text) :
        /\ k + Len(lit) <= Len(text)
        /\ \A j \in 1..Len(lit) : text[k + j] = lit[j]

\* the note files (suffix .md) below root that can be read and decoded
ReadableNotes(f, root) ==
    { p \in AllPaths : /\ Len(p) > Len(root)
                       /\ SubSeq(p, 1, Len(root)) = root
                       /\ matches_md(name(p))
                       /\ f[p].kind = "file"
                       /\ f[p].readable
                       /\ f[p].utf8 }

NakedNotes(f, root) == { p \in ReadableNotes(f, root) : SingleUrlLine(f[p].data) }

NotesWith(f, root, lit) == { p \in ReadableNotes(f, root) : Occurs(f[p].data, lit) }

\* the candidates the scan loop passes over with a warning
Skipped(f, root) == rglob_md(f, root) \ ReadableNotes(f, root)

\* C8: when either scan has visited its last candidate, it has raised nothing
\* and its list holds, once each, exactly the readable, decodable .md files
\* below the root that satisfy its predicate, whatever files it had to skip
C8_ScanSkipsAndContinues ==
    /\ (pc = "find_naked_urls" /\ todo = {}) =>
          /\ error = "none"
          /\ NoDuplicates(naked_urls)
          /\ Range(naked_urls) = NakedNotes(fs, args.find_naked_urls)
    /\ (pc = "find_files_with_string" /\ todo = {}) =>
          /\ error = "none"
          /\ NoDuplicates(matching_files)
          /\ Range(matching_files) = NotesWith(fs, args.find_naked_urls, args.filter)

\* both scans are over, each found a match, and the tree holds two files
\* that had to be skipped
C8_Witness ==
    /\ pc = "find_files_with_string"
    /\ todo = {}
    /\ naked_urls # <<>>
    /\ matching_files # <<>>
    /\ Cardinality(Skipped(fs, args.find_naked_urls)) >= 2

\* C9: with a filter the working set is exactly the naked-URL notes whose
\* content contains the filter string (case-sensitive); without one it is
\* the set of naked-URL notes
C9_WorkingSetIsIntersection ==
    pc = "report" =>
        /\ NoDuplicates(files)
        /\ Range(files) =
              IF truthy(args.filter)
              THEN { p \in NakedNotes(fs, args.find_naked_urls) :
                        Occurs(fs[p].data, args.filter) }
              ELSE NakedNotes(fs, args.find_naked_urls)

\* a filter that keeps some of the naked-URL notes and drops others
C9_Witness ==
    /\ pc = "report"
    /\ truthy(args.filter)
    /\ files # <<>>
    /\ Len(files) < Len(naked_urls)

\* C1: when a run with a move target and a non-empty working set ends,
\* move_files has been invoked on the printed working set: every printed path
\* is in one of its two result lists, and the moved ones are in the target
C1_MoveGetsWorkingSet ==
    (pc = "done" /\ printed # <<>> /\ truthy(args.move)) =>
        /\ Range(successful) \cup Range(failed) = Range(printed)
        /\ \A p \in Range(successful) : exists(fs, join(args.move, name(p)))

\* a validation error: the scan root is rejected, or the move was reached
\* with a target that exists and is not a directory
ValidationError ==
    \/ /\ truthy(args.find_naked_urls)
       /\ validate_directory(fs0, args.find_naked_urls) # "ok"
    \/ /\ printed # <<>>
       /\ truthy(args.move)
       /\ exists(fs0, args.move)
       /\ ~is_dir(fs0, args.move)

\* C2: a run ends with a non-zero status exactly when a validation error
\* occurred
C2_ExitStatus ==
    pc = "done" => ((exit_status # 0) <=> ValidationError)

(***************************************************************************)
(* Claims about move_files (specifications Move and Race)                  *)
(***************************************************************************)
\* the loop is about to process a file whose base name is taken in the target
AtTakenName ==
    /\ pc = "loop"
    /\ i <= Len(files)
    /\ Entry(fs, join(target_dir, name(files[i]))).kind # "none"

Present(batch) == SelectSeq(batch, LAMBDA f : f \notin missing)

\* C4: a file whose source is absent goes to the failed list and changes
\* nothing for the others: filesystem and lists end as they do for the batch
\* without the absent files, and every requested path is in exactly one list
C4_FailuresAreIsolated ==
    pc = "returned" =>
        LET alone == move_files(fs0, Present(files), target_dir)
        IN  /\ missing \subseteq Range(failed)
            /\ ~alone.raised
            /\ fs = alone.fs
            /\ successful = alone.successful
            /\ Present(failed) = alone.failed
            /\ \A f \in Range(files) : (f \in Range(successful)) # (f \in Range(failed))
            /\ Len(successful) + Len(failed) = Len(files)

\* the first file of the batch was absent, a later one was moved and
\* another one failed on a taken name
C4_Witness ==
    /\ pc = "returned"
    /\ Len(files) >= 3
    /\ files[1] \in missing
    /\ successful # <<>>
    /\ Range(failed) \ missing # {}

\* the batch is N >= 1 regular files with pairwise distinct base names and
\* the target does not exist
FreshTargetDistinctNames ==
    /\ files # <<>>
    /\ ~exists(fs0, target_dir)
    /\ \A k \in 1..Len(files) : fs0[files[k]].kind = "file"
    /\ \A a, b \in 1..Len(files) : a # b => name(files[a]) # name(files[b])

C6_InvalidTargetTouchesNothing ==
    (pc # "move_files" /\ exists(fs0, target_dir) /\ ~is_dir(fs0, target_dir)) =>
        /\ pc = "raised"
        /\ error = "VaultAnalysisError"
        /\ fs = fs0
        /\ successful = <<>>
        /\ failed = <<>>
        /\ i = 0

\* the call raised on a file target although the batch held movable files
C6_Witness ==
    /\ pc = "raised"
    /\ fs0[target_dir].kind = "file"
    /\ \E f \in Range(files) : exists(fs0, f)

\* C10: a rename replaces an entry of the target only when the external
\* process created that entry after the existence check of that very file
\* and before its rename, and the file is then reported as moved
C10_OverwriteOnlyByRace ==
    \A f \in clobbered :
        /\ f \in Range(successful)
        /\ \E e \in ext :
            /\ e.path = join(target_dir, name(f))
            /\ e.at = "rename"
            /\ files[e.index] = f

\* the batch returned after a rename replaced the entry the external
\* process had created: the target holds the moved file, reported as moved
C10_Witness ==
    /\ pc = "returned"
    /\ \E f \in clobbered :
        /\ f \in Range(successful)
        /\ fs[join(target_dir, name(f))] = fs0[f]
        /\ \E e \in ext : e.path = join(target_dir, name(f))

====
